---- MODULE Spec2Model ----
(***************************************************************************)
(* Segmentation and aggregation engine of src/utils: a per-window label    *)
(* column is cut into maximal same-label runs (preprocessing.py) and the   *)
(* runs are counted (count.py), timed (duration.py) and rated by peak      *)
(* intensity (intensity.py).                                               *)
(*                                                                         *)
(* A DataFrame is a record [columns |-> <<names>>, rows |-> <<rows>>],      *)
(* each row a tuple of values in column order.  Positions (iloc) are       *)
(* 0-based as in the source; TLA+ sequences are 1-based, so position p of  *)
(* a column is element p + 1 of the sequence.  A call returns              *)
(* [exc |-> "None", ret |-> value] or [exc |-> <error>, ret |-> <<>>].      *)
(***************************************************************************)
EXTENDS Integers, Sequences, FiniteSets, TLC

VARIABLES results, mapping, call, out, default_grouping_columns, grouping_columns, scaler

vars == <<results, mapping, call, out, default_grouping_columns, grouping_columns, scaler>>

\* ------------------------------------------------------------------ bounds
MaxLen == 4
MaxLabel == 3
MaxLenI == 3
MaxLabelI == 2

\* ------------------------------------------------------------ Python values
Ok(v) == [exc |-> "None", ret |-> v]

Raise(e) == [exc |-> e, ret |-> <<>>]

NaN == "NaN"

Min(a, b) == IF a < b THEN a ELSE b

Abs(a) == IF a < 0 THEN -a ELSE a

RECURSIVE GCD(_, _)
GCD(a, b) == IF b = 0 THEN a ELSE GCD(b, a % b)

\* a float is kept exact, as a reduced fraction with a positive denominator
Rat(n, d) ==
    LET g == GCD(Abs(n), Abs(d))
        s == IF d < 0 THEN -1 ELSE 1
    IN  [num |-> (s * n) \div g, den |-> (s * d) \div g]

R(n) == [num |-> n, den |-> 1]

RAdd(a, b) == Rat(a.num * b.den + b.num * a.den, a.den * b.den)

RSub(a, b) == Rat(a.num * b.den - b.num * a.den, a.den * b.den)

RMul(a, b) == Rat(a.num * b.num, a.den * b.den)

RDiv(a, b) == Rat(a.num * b.den, a.den * b.num)

RECURSIVE RSum(_)
RSum(s) == IF s = <<>> THEN R(0) ELSE RAdd(s[1], RSum(Tail(s)))

\* np.mean / Series.mean of a non-empty sequence of numbers
mean(s) == RDiv(RSum(s), R(Len(s)))

\* ------------------------------------------------------------- DataFrames
DataFrame(columns, rows) == [columns |-> columns, rows |-> rows]

Range(s) == {s[i] : i \in DOMAIN s}

\* a function on 1..n as the list of its values
List(f) == f \o <<>>

\* data.columns.get_loc(name), for a name that is a column
get_loc(columns, name) == CHOOSE i \in DOMAIN columns : columns[i] = name

\* data[name].values
Column(data, name) ==
    LET loc == get_loc(data.columns, name)
    IN  List([i \in 1..Len(data.rows) |-> data.rows[i][loc]])

\* seq[start:end] for 0 <= start, 0 <= end
Slice(seq, start, end) == SubSeq(seq, start + 1, Min(end, Len(seq)))

\* ------------------------------------------------ utils/preprocessing.py
n_win_size == 25

n_win_slide == 5

SampleRate == 50

\* the conversion with the slide counted once per window
windows_to_seconds_every(n_windows) ==
    RDiv(RAdd(R(n_win_size), RMul(R(n_win_slide), n_windows)), R(SampleRate))

\* n_windows is a float (a mean of integer durations, or one duration):
\* n_duration = n_win_size + n_win_slide * (n_windows - 1); n_duration / 50
windows_to_seconds(n_windows) ==
    RDiv(RAdd(R(n_win_size), RMul(R(n_win_slide), RSub(n_windows, R(1)))), R(SampleRate))

\* 1, ..., n
Indices(n) == List([i \in 1..n |-> i])

\* the boundary scan without its "+ 1"
changes_shifted(values) ==
    SelectSeq(List([i \in 1..(Len(values) - 1) |-> i - 1]),
              LAMBDA j : values[j + 1] # values[j + 2])

\* the boundary scan comparing with < instead of !=
changes_rising(values) ==
    SelectSeq(Indices(Len(values) - 1), LAMBDA i : values[i] < values[i + 1])

\* np.flatnonzero(values[:-1] != values[1:]) + 1
changes(values) ==
    SelectSeq(Indices(Len(values) - 1), LAMBDA i : values[i] # values[i + 1])

\* np.column_stack((a, b))
column_stack(a, b) == List([k \in DOMAIN a |-> <<a[k], b[k]>>])

\* the boundary scan without the check for an empty input: no change is
\* found in an empty list, which leaves the one range [0, 0)
find_subsegments_indices_unchecked(values) ==
    IF Len(values) = 0
    THEN Ok(<< <<0, 0>> >>)
    ELSE Ok(column_stack(<<0>> \o changes(values), changes(values) \o <<Len(values)>>))

find_subsegments_indices(values) ==
    IF Len(values) = 0
    THEN Raise("ValueError: Segments cannot be extracted from an empty list")
    ELSE Ok(column_stack(<<0>> \o changes(values), changes(values) \o <<Len(values)>>))

\* data.iloc[segment[0] : segment[1], get_loc(label_column)]
sel_label(data, segment, label_column) ==
    Slice(Column(data, label_column), segment[1], segment[2])

\* sel_label.unique()[0] of every slice
first_labels(data, segments, label_column) ==
    List([k \in DOMAIN segments |-> sel_label(data, segments[k], label_column)[1]])

\* the labels of the segments whose slice holds more than one row
get_segment_label_long(data, segments, label_column) ==
    IF label_column \notin Range(data.columns)
    THEN Raise("ValueError: Target column not found in DataFrame")
    ELSE Ok(first_labels(
                data,
                SelectSeq(segments,
                          LAMBDA segment : Len(sel_label(data, segment, label_column)) > 1),
                label_column))

\* the labels of the segments whose slice is not empty
get_segment_label(data, segments, label_column) ==
    IF label_column \notin Range(data.columns)
    THEN Raise("ValueError: Target column not found in DataFrame")
    ELSE Ok(first_labels(
                data,
                SelectSeq(segments,
                          LAMBDA segment : Len(sel_label(data, segment, label_column)) # 0),
                label_column))

\* the segment table: start, end, duration = end - start, label
segment_table(segments, labels) ==
    List([k \in DOMAIN segments |->
            [start |-> segments[k][1],
             end |-> segments[k][2],
             duration |-> segments[k][2] - segments[k][1],
             label |-> labels[k]]])

\* lines 115-125, given the outcomes of lines 114 and 115
label_segments(segments, labels) ==
    IF segments.exc # "None" THEN segments
    ELSE IF labels.exc # "None" THEN labels
    ELSE IF Len(labels.ret) # Len(segments.ret)
    THEN Raise("ValueError: Length mismatch between segments and labels")
    ELSE Ok(segment_table(segments.ret, labels.ret))

\* get_segment_label on the outcome of find_subsegments_indices
labels_of(data, segments, label_column) ==
    IF segments.exc # "None" THEN segments
    ELSE get_segment_label(data, segments.ret, label_column)

segments_and_labels(data, segments, label_column) ==
    label_segments(segments, labels_of(data, segments, label_column))

find_label_segments(data, label_column) ==
    IF label_column \notin Range(data.columns)
    THEN Raise("ValueError: Target column not found in DataFrame")
    ELSE segments_and_labels(
             data, find_subsegments_indices(Column(data, label_column)), label_column)

\* ------------------------------------------------------- label mappings
\* a dict is the sequence of its <<key, value>> items in insertion order;
\* mapping.is_none is "mapping is None"
None == [is_none |-> TRUE, items |-> <<>>]

Dict(items) == [is_none |-> FALSE, items |-> items]

values(m) == List([i \in DOMAIN m.items |-> m.items[i][2]])

\* Series.map(dict) on one value: a key that is missing maps to NaN
map(m, label) ==
    IF \E i \in DOMAIN m.items : m.items[i][1] = label
    THEN m.items[CHOOSE i \in DOMAIN m.items : m.items[i][1] = label][2]
    ELSE NaN

\* if mapping is not None: segments["label"] = segments["label"].map(mapping)
map_labels(segments, m) ==
    IF m.is_none THEN segments
    ELSE List([k \in DOMAIN segments |-> [segments[k] EXCEPT !.label = map(m, @)]])

\* the background filter left out
drop_background_kept(segments) == segments

\* segments[segments["label"] != 0]
drop_background(segments) == SelectSeq(segments, LAMBDA s : s.label # 0)

\* the group keys of segments.groupby("label"): NaN keys are dropped (only a
\* mapped label column can hold NaN)
group_keys(segments, m) ==
    IF m.is_none
    THEN {segments[k].label : k \in DOMAIN segments}
    ELSE {segments[k].label : k \in DOMAIN segments} \ {NaN}

\* segments.groupby("label"): key -> the rows of that key, in row order
groupby_label(segments, m) ==
    [l \in group_keys(segments, m) |-> SelectSeq(segments, LAMBDA s : s.label = l)]

\* a reindex that keeps only the labels the data holds
reindex_present(series, labels, fill_value) ==
    List([k \in DOMAIN SelectSeq(labels, LAMBDA l : l \in DOMAIN series) |->
            [label |-> SelectSeq(labels, LAMBDA l : l \in DOMAIN series)[k],
             value |-> series[SelectSeq(labels, LAMBDA l : l \in DOMAIN series)[k]]]])

\* series.reindex(labels, fill_value): one entry per element of labels, in order
reindex(series, labels, fill_value) ==
    List([k \in DOMAIN labels |->
            [label |-> labels[k],
             value |-> IF labels[k] \in DOMAIN series THEN series[labels[k]] ELSE fill_value]])

\* the known labels: mapping.values() if a mapping is given, else [1, 2, 3]
known_labels(m) == IF m.is_none THEN <<1, 2, 3>> ELSE values(m)

\* ------------------------------------------------------- utils/count.py
\* every label that occurs counted once, however many segments it has
size_once(grouped) == [l \in DOMAIN grouped |-> 1]

\* segments.groupby("label").size()
size(grouped) == [l \in DOMAIN grouped |-> Len(grouped[l])]

\* counts.reset_index(name="expression_count").set_index("label")
count_rows(counts) ==
    List([k \in DOMAIN counts |->
            [label |-> counts[k].label, expression_count |-> counts[k].value]])

\* lines 36-46, on the mapped non-background segments
count_segments(segments, m, group) ==
    IF group
    THEN count_rows(reindex(size(groupby_label(segments, m)), known_labels(m), 0))
    ELSE <<[expression_count |-> Len(segments)]>>

\* lines 30-46, on the outcome of find_label_segments
count_found(found, m, group) ==
    IF found.exc # "None" THEN found
    ELSE Ok(count_segments(map_labels(drop_background(found.ret), m), m, group))

get_num_expressions(data, m, group) ==
    count_found(find_label_segments(data, "pred"), m, group)

\* ---------------------------------------------------- utils/duration.py
\* a single zero whether grouped or not
no_expression_duration_single(all_labels, group) == <<[duration |-> R(0)]>>

\* lines 79-84, when no segment is left: a zero per known label, or one zero
no_expression_duration(all_labels, group) ==
    IF group
    THEN List([k \in DOMAIN all_labels |-> [duration |-> R(0), label |-> all_labels[k]]])
    ELSE <<[duration |-> R(0)]>>

\* segments["duration"] as floats
durations(segments) == List([k \in DOMAIN segments |-> R(segments[k].duration)])

\* segments["duration"].apply(windows_to_seconds)
seconds(segments) ==
    List([k \in DOMAIN segments |-> windows_to_seconds(R(segments[k].duration))])

\* segments.groupby("label")["duration"].mean().apply(windows_to_seconds)
mean_seconds(grouped) ==
    [l \in DOMAIN grouped |-> windows_to_seconds(mean(durations(grouped[l])))]

duration_rows(filled) ==
    List([k \in DOMAIN filled |-> [label |-> filled[k].label, duration |-> filled[k].value]])

\* lines 46-67, on the mapped segments
average_duration(segments, m, group) ==
    IF group
    THEN duration_rows(reindex(mean_seconds(groupby_label(segments, m)), known_labels(m), R(0)))
    ELSE <<[duration |-> mean(seconds(segments))]>>

\* lines 68-77: pd.DataFrame({"duration": durations, "label": labels})
each_duration(segments) ==
    List([k \in DOMAIN segments |->
            [duration |-> windows_to_seconds(R(segments[k].duration)),
             label |-> segments[k].label]])

\* lines 40-84, on the non-background segments
duration_segments(segments, m, average, group) ==
    IF segments # <<>>
    THEN IF average
         THEN average_duration(map_labels(segments, m), m, group)
         ELSE each_duration(map_labels(segments, m))
    ELSE no_expression_duration(known_labels(m), group)

\* lines 39-84, on the outcome of find_label_segments
duration_found(found, m, average, group) ==
    IF found.exc # "None" THEN found
    ELSE Ok(duration_segments(drop_background(found.ret), m, average, group))

get_expression_duration(data, m, average, group) ==
    duration_found(find_label_segments(data, "pred"), m, average, group)

\* --------------------------------------------------- utils/intensity.py
\* Series.max() of a non-empty slice
SeriesMax(s) == CHOOSE x \in Range(s) : \A y \in Range(s) : y <= x

\* intensity_data.iloc[start:end]["Intensity"]
segment_rows(segment, intensity_data) ==
    Slice(Column(intensity_data, "Intensity"), segment.start, segment.end)

\* the maximum of every segment
peaks(segments, intensity_data) ==
    List([k \in DOMAIN segments |-> R(SeriesMax(segment_rows(segments[k], intensity_data)))])

\* np.mean(intensities_per_segment), or 0 for an empty list
mean_or_zero(intensities_per_segment) ==
    IF intensities_per_segment # <<>> THEN mean(intensities_per_segment) ELSE R(0)

\* the threshold test with >= instead of >
get_intensities_per_segments_ge(segments, intensity_data, intensity_threshold) ==
    mean_or_zero(peaks(
        SelectSeq(segments,
            LAMBDA row : /\ segment_rows(row, intensity_data) # <<>>
                         /\ SeriesMax(segment_rows(row, intensity_data)) >= intensity_threshold),
        intensity_data))

\* the segments kept are those with intensity > intensity_threshold; max() of
\* an empty slice is NaN, and NaN > threshold is False
get_intensities_per_segments(segments, intensity_data, intensity_threshold) ==
    mean_or_zero(peaks(
        SelectSeq(segments,
            LAMBDA row : /\ segment_rows(row, intensity_data) # <<>>
                         /\ SeriesMax(segment_rows(row, intensity_data)) > intensity_threshold),
        intensity_data))

default_intensity_threshold == 0

\* segments.groupby("label").apply(get_intensities_per_segments, ...)
per_label_intensity(grouped, intensity_data, intensity_threshold) ==
    [l \in DOMAIN grouped |->
        get_intensities_per_segments(grouped[l], intensity_data, intensity_threshold)]

intensity_rows(filled) ==
    List([k \in DOMAIN filled |->
            [label |-> filled[k].label, Expression_Intensity |-> filled[k].value]])

\* lines 89-100, when no segment is left
no_expression_intensity(all_labels, group_labels) ==
    IF group_labels
    THEN List([k \in DOMAIN all_labels |->
                 [label |-> all_labels[k], Expression_Intensity |-> R(0)]])
    ELSE R(0)

\* lines 103-124, on the mapped segments; the overall branch calls
\* get_intensities_per_segments(segments, intensity_data), without a threshold
mean_of_segments(segments, intensity_data, m, group_labels, intensity_threshold) ==
    IF group_labels
    THEN intensity_rows(reindex(
             per_label_intensity(groupby_label(segments, m), intensity_data, intensity_threshold),
             known_labels(m), R(0)))
    ELSE get_intensities_per_segments(segments, intensity_data, default_intensity_threshold)

\* lines 88-124, on the outcome of find_label_segments
intensity_found(found, intensity_data, m, group_labels, intensity_threshold) ==
    IF found.exc # "None" THEN found
    ELSE IF drop_background(found.ret) = <<>>
    THEN Ok(no_expression_intensity(known_labels(m), group_labels))
    ELSE IF "Intensity" \notin Range(intensity_data.columns)
    THEN Raise("KeyError: Intensity")
    ELSE Ok(mean_of_segments(map_labels(drop_background(found.ret), m),
                             intensity_data, m, group_labels, intensity_threshold))

get_mean_intensities(intensity_data, m, group_labels, intensity_threshold, label_col) ==
    intensity_found(find_label_segments(intensity_data, label_col),
                    intensity_data, m, group_labels, intensity_threshold)

\* ------------------------------------------------ DataFrame.groupby
\* the key of a row: its values in the `by` columns
KeyOf(data, row, by) == List([j \in DOMAIN by |-> row[get_loc(data.columns, by[j])]])

Keys(data, by) == {KeyOf(data, data.rows[i], by) : i \in DOMAIN data.rows}

\* sort rank of a mapped label (a string); integer values sort as themselves
Rank(name) == CHOOSE r \in 1..4 : <<"A", "B", "C", NaN>>[r] = name

\* lexicographic order of two keys; a "label" key column holds names when a
\* mapping is given
KeyLess(a, b, by, m) ==
    \E j \in DOMAIN by :
        /\ \A i \in 1..(j - 1) : a[i] = b[i]
        /\ IF by[j] = "label" /\ ~m.is_none
           THEN Rank(a[j]) < Rank(b[j])
           ELSE a[j] < b[j]

\* the keys in sorted order (groupby sorts its keys)
Sorted(keys, by, m) ==
    List([k \in 1..Cardinality(keys) |->
            CHOOSE a \in keys : Cardinality({b \in keys : KeyLess(b, a, by, m)}) = k - 1])

\* every key given the whole table instead of its own rows
groups_of_whole(data, keys, by) ==
    List([k \in DOMAIN keys |-> [key |-> keys[k], group |-> data]])

\* every key with the sub-table of its rows
groups_of(data, keys, by) ==
    List([k \in DOMAIN keys |->
            [key |-> keys[k],
             group |-> DataFrame(data.columns,
                 SelectSeq(data.rows, LAMBDA row : KeyOf(data, row, by) = keys[k]))]])

\* data.groupby(by)
groupby(data, by, m) == groups_of(data, Sorted(Keys(data, by), by, m), by)

RECURSIVE Concat(_)
Concat(ss) == IF ss = <<>> THEN <<>> ELSE ss[1] \o Concat(Tail(ss))

\* -------------------------------------------- the scaler (fit / transform)
\* A scikit-learn scaler fits every column (feature) of the frame it is given
\* on its own and transforms column by column; the model is min-max scaling,
\* whose fit state is the minimum and the range of each column.
SeriesMin(s) == CHOOSE x \in Range(s) : \A y \in Range(s) : x <= y

Unfitted == <<>>

\* scaler.fit(frame): frame is the sequence of its columns
fit(frame) ==
    List([c \in DOMAIN frame |->
            [data_min |-> SeriesMin(frame[c]),
             data_range |-> SeriesMax(frame[c]) - SeriesMin(frame[c])]])

\* scaler.transform(frame) with the fit state `fitted`; a zero range scales by 1
transform(fitted, frame) ==
    List([c \in DOMAIN frame |->
            List([i \in DOMAIN frame[c] |->
                    Rat(frame[c][i] - fitted[c].data_min,
                        IF fitted[c].data_range = 0 THEN 1 ELSE fitted[c].data_range)])])

\* pd.concat([series, ...], axis=1): the series side by side, one column each
concat_axis1(series) == series

\* ------------------------------------------ utils/count.py, normalize_data
\* group[data_cols], and [group[col] for col in data_cols]
frame_of(group, data_cols) == List([d \in DOMAIN data_cols |-> Column(group, data_cols[d])])

\* group[data_cols] = frame
assign(group, data_cols, frame) ==
    DataFrame(group.columns,
        List([i \in DOMAIN group.rows |->
            List([c \in DOMAIN group.columns |->
                IF \E d \in DOMAIN data_cols : data_cols[d] = group.columns[c]
                THEN frame[CHOOSE d \in DOMAIN data_cols : data_cols[d] = group.columns[c]][i]
                ELSE group.rows[i][c]])]))

\* scaler.fit(all_cols), or the fit of scaler.fit_transform(group[data_cols])
fit_group(group, data_cols, fit_all_cols) ==
    IF fit_all_cols
    THEN fit(concat_axis1(frame_of(group, data_cols)))
    ELSE fit(frame_of(group, data_cols))

\* the group with its data columns transformed, and the scaler's fit state
transform_group(group, data_cols, fitted) ==
    [group |-> assign(group, data_cols, transform(fitted, frame_of(group, data_cols))),
     scaler |-> fitted]

normalize_group(group, data_cols, fit_all_cols) ==
    transform_group(group, data_cols, fit_group(group, data_cols, fit_all_cols))

\* .apply(normalize_group, fit_all_cols), group by group in key order
normalize_groups(groups, data_cols, fit_all_cols) ==
    List([k \in DOMAIN groups |-> normalize_group(groups[k].group, data_cols, fit_all_cols)])

\* reset_index(drop=True): the rows of the groups (in group order, as pandas 2
\* returns them), with the scaler's fit state after the last group
normalized(columns, done) ==
    [exc |-> "None",
     ret |-> DataFrame(columns, Concat(List([k \in DOMAIN done |-> done[k].group.rows]))),
     scaler |-> IF done = <<>> THEN Unfitted ELSE done[Len(done)].scaler]

normalize_data(data, by, data_cols, fit_all_cols) ==
    IF \E j \in DOMAIN by : by[j] \notin Range(data.columns)
    THEN [exc |-> "KeyError", ret |-> <<>>, scaler |-> Unfitted]
    ELSE normalized(data.columns,
                    normalize_groups(groupby(data, by, None), data_cols, fit_all_cols))

\* ------------------------------ utils/count.py, get_grouped_num_expressions
\* the rows one group contributes after reset_index(): the key, then the
\* index of the group's result ("label" when counting per label), then the count
keyed_rows(key, rows, group_labels) ==
    List([i \in DOMAIN rows |->
            key \o (IF group_labels THEN <<rows[i].label>> ELSE <<>>)
                \o <<rows[i].expression_count>>])

collect(by, groups, counts, group_labels) ==
    IF \E k \in DOMAIN counts : counts[k].exc # "None"
    THEN counts[CHOOSE k \in DOMAIN counts : counts[k].exc # "None"]
    ELSE Ok(DataFrame(
             by \o (IF group_labels THEN <<"label">> ELSE <<>>) \o <<"expression_count">>,
             Concat(List([k \in DOMAIN groups |->
                             keyed_rows(groups[k].key, counts[k].ret, group_labels)]))))

\* .apply(lambda x: get_num_expressions(x, mapping=mapping, group=group_labels))
apply_to_groups(by, groups, m, group_labels) ==
    collect(by, groups,
            List([k \in DOMAIN groups |-> get_num_expressions(groups[k].group, m, group_labels)]),
            group_labels)

\* data.groupby(by).apply(get_num_expressions).reset_index()
apply_get_num_expressions(data, by, m, group_labels) ==
    IF \E j \in DOMAIN by : by[j] \notin Range(data.columns)
    THEN Raise("KeyError")
    ELSE apply_to_groups(by, groupby(data, by, None), m, group_labels)

sums(groups) ==
    List([k \in DOMAIN groups |->
            groups[k].key \o <<RSum(Column(groups[k].group, "expression_count"))>>])

\* data.groupby(by)["expression_count"].sum().reset_index()
sum_expression_count(data, by, m) ==
    IF \E j \in DOMAIN by : by[j] \notin Range(data.columns)
    THEN Raise("KeyError")
    ELSE Ok(DataFrame(by \o <<"expression_count">>, sums(groupby(data, by, m))))

\* A call's outcome is the result or the exception, the list object passed as
\* grouping_columns as the call leaves it, and the scaler's fit state
\* (Unfitted if the call never fitted it).
Outcome(exc, ret, columns, fitted) ==
    [exc |-> exc, ret |-> ret, grouping_columns |-> columns, scaler |-> fitted]

\* if group_labels: grouping_columns.append("label")
append_label(columns, group_labels) ==
    IF group_labels THEN Append(columns, "label") ELSE columns

\* lines 143-149, on the outcome of normalize_data
sum_normalized(normalized_data, columns, m, group_labels) ==
    IF normalized_data.exc # "None"
    THEN Outcome(normalized_data.exc, <<>>, columns, Unfitted)
    ELSE Outcome(
             sum_expression_count(
                 normalized_data.ret, append_label(columns, group_labels), m).exc,
             sum_expression_count(
                 normalized_data.ret, append_label(columns, group_labels), m).ret,
             append_label(columns, group_labels),
             normalized_data.scaler)

\* lines 137-149, on the outcome of the first groupby
normalize_counts(grouped, columns, m, group_labels) ==
    IF grouped.exc # "None"
    THEN Outcome(grouped.exc, <<>>, columns, Unfitted)
    ELSE sum_normalized(
             normalize_data(grouped.ret, <<"Subject">>, <<"expression_count">>, FALSE),
             columns, m, group_labels)

\* lines 150-161
count_groups(grouped, columns) == Outcome(grouped.exc, grouped.ret, columns, Unfitted)

\* the counts taken at the caller's own key when it already holds "Video"
get_grouped_num_expressions_own_key(data, columns, m, group_labels, normalize) ==
    IF normalize
    THEN normalize_counts(
             apply_get_num_expressions(
                 data,
                 IF "Video" \in Range(columns) THEN columns ELSE columns \o <<"Video">>,
                 m, group_labels),
             columns, m, group_labels)
    ELSE count_groups(apply_get_num_expressions(data, columns, m, group_labels), columns)

\* normalize=True is called with a scaler, as the docstring requires; with
\* "Video" among the columns normalization_grouping_cols is read unassigned
get_grouped_num_expressions(data, columns, m, group_labels, normalize) ==
    IF normalize
    THEN IF "Video" \in Range(columns)
         THEN Outcome("UnboundLocalError", <<>>, columns, Unfitted)
         ELSE normalize_counts(
                  apply_get_num_expressions(data, columns \o <<"Video">>, m, group_labels),
                  columns, m, group_labels)
    ELSE count_groups(apply_get_num_expressions(data, columns, m, group_labels), columns)

\* ------------------------------- groupby(...).apply(f) of duration.py and
\* intensity.py: the result of a group is a list of rows, each a record
\* column -> value; the flat table is the list of [key, row], key holding
\* the values of the grouping columns and row the other columns
all_columns(frames) ==
    UNION {UNION {DOMAIN frames[k][i] : i \in DOMAIN frames[k]} : k \in DOMAIN frames}

\* a row of pd.concat(frames): a column its own frame lacks holds NaN
pad(row, columns) == [c \in columns |-> IF c \in DOMAIN row THEN row[c] ELSE NaN]

keyed(key, rows, columns) ==
    List([i \in DOMAIN rows |-> [key |-> key, row |-> pad(rows[i], columns)]])

\* the groups' results under their keys, in key order; the inner index
\* (reset_index(level=-1, drop=True), or the dropped "level_n" column) is
\* not kept
concat_keyed(groups, frames) ==
    Concat(List([k \in DOMAIN groups |->
                    keyed(groups[k].key, frames[k], all_columns(frames))]))

\* an exception in f ends the apply
flatten(groups, done) ==
    IF \E k \in DOMAIN done : done[k].exc # "None"
    THEN done[CHOOSE k \in DOMAIN done : done[k].exc # "None"]
    ELSE Ok(concat_keyed(groups, List([k \in DOMAIN done |-> done[k].ret])))

\* .apply(lambda df: get_expression_duration(df, mapping, average, group))
apply_get_expression_duration(groups, m, average, group) ==
    flatten(groups,
            List([k \in DOMAIN groups |->
                    get_expression_duration(groups[k].group, m, average, group)]))

get_grouped_expressions_duration(data, columns, m, average, group) ==
    IF \E j \in DOMAIN columns : columns[j] \notin Range(data.columns)
    THEN Raise("KeyError")
    ELSE apply_get_expression_duration(groupby(data, columns, None), m, average, group)

\* pd.Series({"Expression Intensity": get_mean_intensities(...)}): one row
as_series(intensity) ==
    IF intensity.exc # "None" THEN intensity
    ELSE Ok(<<[Expression_Intensity |-> intensity.ret]>>)

\* lines 170-193: the per-label table of every group, or its wrapped scalar
apply_get_mean_intensities(groups, m, group_labels, intensity_threshold, label_col) ==
    flatten(groups,
            List([k \in DOMAIN groups |->
                    IF group_labels
                    THEN get_mean_intensities(groups[k].group, m, group_labels,
                                              intensity_threshold, label_col)
                    ELSE as_series(get_mean_intensities(groups[k].group, m, group_labels,
                                                        intensity_threshold, label_col))]))

get_grouped_expression_intensity(data, columns, m, group_labels, intensity_threshold, label_col) ==
    IF \E j \in DOMAIN columns : columns[j] \notin Range(data.columns)
    THEN Raise("KeyError")
    ELSE apply_get_mean_intensities(groupby(data, columns, None), m, group_labels,
                                    intensity_threshold, label_col)

\* ---------------------------------- utils/model.py, filter_predictions
\* segments[segments["label"] != 0], then segments["duration"] <= window_threshold
short_segments(segments, window_threshold) ==
    SelectSeq(drop_background(segments), LAMBDA s : s.duration <= window_threshold)

\* position p (0-based) lies in [start, end) of one of the segments
covered(p, segments) ==
    \E k \in DOMAIN segments : segments[k].start <= p /\ p < segments[k].end

\* for every segment: filtered_results.iloc[start:end, 0] = 0, which writes
\* the column at position 0
zero_first_column(data, segments) ==
    DataFrame(data.columns,
        List([i \in DOMAIN data.rows |->
            List([c \in DOMAIN data.columns |->
                IF c = 1 /\ covered(i - 1, segments) THEN 0 ELSE data.rows[i][c]])]))

\* lines 116-123, on the outcome of find_label_segments
filter_found(data, found, window_threshold) ==
    IF found.exc # "None" THEN found
    ELSE Ok(zero_first_column(data, short_segments(found.ret, window_threshold)))

\* the result is a changed copy; the table passed in is left as it is
filter_predictions(data, window_threshold) ==
    filter_found(data, find_label_segments(data, "pred"), window_threshold)

\* ------------------------------------------------------------ the callers
\* the mapping of the worked example, and a partial one in another order
MappingABC == Dict(<< <<1, "A">>, <<2, "B">>, <<3, "C">> >>)

Mappings == {None, MappingABC, Dict(<< <<2, "B">>, <<1, "A">> >>)}

\* a table whose column `name` holds `column` and whose other columns hold `other`
TableOf(columns, name, column, other) ==
    DataFrame(columns,
        [i \in DOMAIN column |->
            [c \in DOMAIN columns |-> IF columns[c] = name THEN column[i] ELSE other[i]]])

LabelColumns(maxlen, maxlabel) == UNION {[1..n -> 0..maxlabel] : n \in 0..maxlen}

\* the worked examples: a label column with two expressions, and an intensity
\* series (in hundredths) whose peak 0.9 lies in the only expression
ScenarioA == <<0, 0, 1, 1, 1, 0, 2, 2>>

ScenarioC ==
    TableOf(<<"Predictions", "Intensity">>, "Predictions",
            <<0, 0, 1, 1, 1, 0>>, <<10, 10, 90, 30, 20, 10>>)

\* prediction tables: a 'pred' column and a 'Video' column, in either order
PredTables ==
    {TableOf(columns, "pred", pred, [i \in DOMAIN pred |-> 1]) :
        columns \in {<<"pred", "Video">>, <<"Video", "pred">>},
        pred \in LabelColumns(MaxLen, MaxLabel) \cup {ScenarioA}}

\* intensity values and thresholds, in hundredths
IntensityValues == {10, 90}

Thresholds == {0, 10, 95}

IntensityTables ==
    UNION {{TableOf(<<"Predictions", "Intensity">>, "Predictions", pred, intensity) :
                intensity \in [DOMAIN pred -> IntensityValues]} :
           pred \in LabelColumns(MaxLenI, MaxLabelI)}
    \cup {ScenarioC}

NoCall ==
    [fn |-> "none", group |-> FALSE, average |-> FALSE, intensity_threshold |-> 0,
     normalize |-> FALSE, default_columns |-> FALSE, window_threshold |-> 0, calls |-> 0]

InitRest ==
    /\ call = NoCall
    /\ out = Ok(<<>>)
    /\ default_grouping_columns = <<"Group", "Subject", "Video">>
    /\ grouping_columns = <<"Subject">>
    /\ scaler = Unfitted

Init ==
    /\ results \in PredTables
    /\ mapping \in Mappings
    /\ InitRest

\* each behaviour is one call on a fresh input
Segment ==
    /\ call = NoCall
    /\ call' = [NoCall EXCEPT !.fn = "find_label_segments"]
    /\ out' = find_label_segments(results, "pred")
    /\ UNCHANGED <<results, mapping, default_grouping_columns, grouping_columns, scaler>>

Count ==
    \E group \in BOOLEAN :
        /\ call = NoCall
        /\ call' = [NoCall EXCEPT !.fn = "get_num_expressions", !.group = group]
        /\ out' = get_num_expressions(results, mapping, group)
        /\ UNCHANGED <<results, mapping, default_grouping_columns, grouping_columns, scaler>>

Duration ==
    \E average \in BOOLEAN, group \in BOOLEAN :
        /\ call = NoCall
        /\ call' = [NoCall EXCEPT !.fn = "get_expression_duration",
                                  !.group = group, !.average = average]
        /\ out' = get_expression_duration(results, mapping, average, group)
        /\ UNCHANGED <<results, mapping, default_grouping_columns, grouping_columns, scaler>>

Next == Segment \/ Count \/ Duration

Spec == Init /\ [][Next]_vars

InitIntensity ==
    /\ results \in IntensityTables
    /\ mapping \in Mappings
    /\ InitRest

MeanIntensities ==
    \E group_labels \in BOOLEAN, intensity_threshold \in Thresholds :
        /\ call = NoCall
        /\ call' = [NoCall EXCEPT !.fn = "get_mean_intensities", !.group = group_labels,
                                  !.intensity_threshold = intensity_threshold]
        /\ out' = get_mean_intensities(results, mapping, group_labels,
                                       intensity_threshold, "Predictions")
        /\ UNCHANGED <<results, mapping, default_grouping_columns, grouping_columns, scaler>>

SpecIntensity == InitIntensity /\ [][MeanIntensities]_vars

\* normalize_data on a table of two value columns x, y partitioned by Subject
MaxRowsN == 2

ValueTables ==
    UNION {[columns : {<<"Subject", "x", "y">>},
            rows : [1..n -> {<<subject, x, y>> : subject \in 1..2, x \in 0..2, y \in 0..2}]] :
           n \in 1..MaxRowsN}

InitNormalize ==
    /\ results \in ValueTables
    /\ mapping = None
    /\ InitRest

\* the call returns done.ret and leaves the scaler fitted
Returned(fn, flag, done) ==
    /\ call = NoCall
    /\ call' = [NoCall EXCEPT !.fn = fn, !.group = flag]
    /\ out' = [exc |-> done.exc, ret |-> done.ret]
    /\ scaler' = done.scaler
    /\ UNCHANGED <<results, mapping, default_grouping_columns, grouping_columns>>

Normalize ==
    \E fit_all_cols \in BOOLEAN :
        Returned("normalize_data", fit_all_cols,
                 normalize_data(results, <<"Subject">>, <<"x", "y">>, fit_all_cols))

SpecNormalize == InitNormalize /\ [][Normalize]_vars

\* get_grouped_num_expressions on tables of windows tagged Group, Subject and
\* Video, called again and again with the caller's own list of grouping
\* columns or with the function's default list
MaxRowsG == 2

GroupedTables ==
    UNION {[columns : {<<"pred", "Group", "Subject", "Video">>},
            rows : [1..n -> {<<pred, 1, subject, video>> :
                                pred \in 0..1, subject \in 1..2, video \in 1..2}]] :
           n \in 1..MaxRowsG}

InitGrouped ==
    /\ results \in GroupedTables
    /\ mapping \in {None, MappingABC}
    /\ call = NoCall
    /\ out = Ok(<<>>)
    /\ default_grouping_columns = <<"Group", "Subject", "Video">>
    /\ grouping_columns = <<"Subject">>
    /\ scaler = Unfitted

\* the call ends with outcome `done`; the list it was passed is the default
\* list or the caller's
Called(use_default, group_labels, normalize, done) ==
    /\ call' = [NoCall EXCEPT !.fn = "get_grouped_num_expressions",
                              !.group = group_labels, !.normalize = normalize,
                              !.default_columns = use_default]
    /\ out' = [exc |-> done.exc, ret |-> done.ret]
    /\ default_grouping_columns' =
           IF use_default THEN done.grouping_columns ELSE default_grouping_columns
    /\ grouping_columns' =
           IF use_default THEN grouping_columns ELSE done.grouping_columns
    /\ scaler' = IF done.scaler = Unfitted THEN scaler ELSE done.scaler
    /\ UNCHANGED <<results, mapping>>

GroupedCount ==
    \E use_default \in BOOLEAN, group_labels \in BOOLEAN, normalize \in BOOLEAN :
        Called(use_default, group_labels, normalize,
               get_grouped_num_expressions(
                   results,
                   IF use_default THEN default_grouping_columns ELSE grouping_columns,
                   mapping, group_labels, normalize))

SpecGrouped == InitGrouped /\ [][GroupedCount]_vars

\* the three grouped aggregators without normalization, each called once on
\* a table of windows of up to two subjects, grouped by Subject
MaxRowsK == 3

KeyedTables ==
    UNION {[columns : {<<"pred", "Intensity", "Subject">>},
            rows : [1..n -> {<<pred, intensity, subject>> :
                                pred \in 0..1, intensity \in IntensityValues,
                                subject \in 1..2}]] :
           n \in 1..MaxRowsK}

InitPerKey ==
    /\ results \in KeyedTables
    /\ mapping \in {None, MappingABC}
    /\ InitRest

PerKeyCount ==
    \E group_labels \in BOOLEAN :
        /\ call = NoCall
        /\ Called(FALSE, group_labels, FALSE,
                  get_grouped_num_expressions(
                      results, grouping_columns, mapping, group_labels, FALSE))

PerKeyDuration ==
    \E average \in BOOLEAN, group \in BOOLEAN :
        /\ call = NoCall
        /\ call' = [NoCall EXCEPT !.fn = "get_grouped_expressions_duration",
                                  !.group = group, !.average = average]
        /\ out' = get_grouped_expressions_duration(
                      results, grouping_columns, mapping, average, group)
        /\ UNCHANGED <<results, mapping, default_grouping_columns, grouping_columns, scaler>>

PerKeyIntensity ==
    \E group_labels \in BOOLEAN, intensity_threshold \in {0, 10} :
        /\ call = NoCall
        /\ call' = [NoCall EXCEPT !.fn = "get_grouped_expression_intensity",
                                  !.group = group_labels,
                                  !.intensity_threshold = intensity_threshold]
        /\ out' = get_grouped_expression_intensity(
                      results, grouping_columns, mapping, group_labels,
                      intensity_threshold, "pred")
        /\ UNCHANGED <<results, mapping, default_grouping_columns, grouping_columns, scaler>>

NextPerKey == PerKeyCount \/ PerKeyDuration \/ PerKeyIntensity

SpecPerKey == InitPerKey /\ [][NextPerKey]_vars

\* the segmentation and the three aggregators, each called once on a table
\* of zero or more windows that holds a 'pred' and an 'Intensity' column
WindowTables ==
    UNION {[columns : {<<"pred", "Intensity", "Subject">>},
            rows : [1..n -> {<<pred, intensity, 1>> :
                                pred \in 0..MaxLabelI, intensity \in IntensityValues}]] :
           n \in 0..MaxLenI}

InitAggregators ==
    /\ results \in WindowTables
    /\ mapping \in Mappings
    /\ InitRest

PredIntensities ==
    \E group_labels \in BOOLEAN, intensity_threshold \in Thresholds :
        /\ call = NoCall
        /\ call' = [NoCall EXCEPT !.fn = "get_mean_intensities", !.group = group_labels,
                                  !.intensity_threshold = intensity_threshold]
        /\ out' = get_mean_intensities(results, mapping, group_labels,
                                       intensity_threshold, "pred")
        /\ UNCHANGED <<results, mapping, default_grouping_columns, grouping_columns, scaler>>

NextAggregators == Segment \/ Count \/ Duration \/ PredIntensities

SpecAggregators == InitAggregators /\ [][NextAggregators]_vars

\* filter_predictions on a prediction table, and once more on the table it
\* returned, with the same threshold
WindowThresholds == 0..2

InitFilter ==
    /\ results \in PredTables
    /\ mapping = None
    /\ InitRest

FilterPredictions ==
    \E window_threshold \in WindowThresholds :
        /\ call = NoCall
        /\ call' = [NoCall EXCEPT !.fn = "filter_predictions",
                                  !.window_threshold = window_threshold, !.calls = 1]
        /\ out' = filter_predictions(results, window_threshold)
        /\ UNCHANGED <<results, mapping, default_grouping_columns, grouping_columns, scaler>>

\* the caller passes the filtered table on to a second call
FilterAgain ==
    /\ call.fn = "filter_predictions"
    /\ call.calls = 1
    /\ out.exc = "None"
    /\ call' = [call EXCEPT !.calls = 2]
    /\ results' = out.ret
    /\ out' = filter_predictions(out.ret, call.window_threshold)
    /\ UNCHANGED <<mapping, default_grouping_columns, grouping_columns, scaler>>

NextFilter == FilterPredictions \/ FilterAgain

SpecFilter == InitFilter /\ [][NextFilter]_vars

\* ================================================================ claims
\* What the claims speak of, stated on the input table directly: the label
\* column, its maximal runs, and the canonical label list.
Pred == Column(results, "pred")

NonEmpty == Len(results.rows) > 0

\* 1-based positions where a maximal run of `column` begins
RunStarts(column) == {p \in DOMAIN column : p = 1 \/ column[p - 1] # column[p]}

\* one past the last position of the run that begins at p
RunEnd(column, p) ==
    IF \E q \in RunStarts(column) : q > p
    THEN CHOOSE q \in RunStarts(column) :
            q > p /\ \A r \in RunStarts(column) : r > p => q <= r
    ELSE Len(column) + 1

\* the runs that are not background
Expressions(column) == {p \in RunStarts(column) : column[p] # 0}

\* the elements of a set of positions, in increasing order
Ordered(S) ==
    [k \in 1..Cardinality(S) |-> CHOOSE p \in S : Cardinality({q \in S : q < p}) = k - 1]

\* the label an aggregator reports for raw label l
Reported(l) == IF mapping.is_none THEN l ELSE map(mapping, l)

Canonical == IF mapping.is_none THEN <<1, 2, 3>> ELSE values(mapping)

RECURSIVE SumSeq(_)
SumSeq(s) == IF s = <<>> THEN 0 ELSE s[1] + SumSeq(Tail(s))

Segmented == call.fn = "find_label_segments" /\ NonEmpty

\* C1: for a non-empty label column the segments partition [0, len): the
\* first starts at 0, the last ends at len, each ends where the next starts,
\* each has start < end (so they are ordered by start), and the durations
\* (end - start) sum to len.
C1_Partition ==
    Segmented =>
        /\ out.exc = "None"
        /\ Len(out.ret) >= 1
        /\ out.ret[1].start = 0
        /\ out.ret[Len(out.ret)].end = Len(results.rows)
        /\ \A k \in 1..(Len(out.ret) - 1) : out.ret[k].end = out.ret[k + 1].start
        /\ \A k \in DOMAIN out.ret :
              /\ out.ret[k].start < out.ret[k].end
              /\ out.ret[k].duration = out.ret[k].end - out.ret[k].start
        /\ SumSeq([k \in DOMAIN out.ret |-> out.ret[k].duration]) = Len(results.rows)

C1_Witness == Segmented /\ out.exc = "None" /\ Len(out.ret) >= 3

\* C2: every segment of a non-empty label column is homogeneous (all rows of
\* [start, end) hold the segment's label, which is the value at start) and
\* maximal (adjacent segments carry different labels).
C2_Homogeneous ==
    Segmented =>
        /\ out.exc = "None"
        /\ \A k \in DOMAIN out.ret :
              /\ out.ret[k].start < out.ret[k].end
              /\ out.ret[k].end <= Len(Pred)
              /\ out.ret[k].label = Pred[out.ret[k].start + 1]
              /\ \A p \in out.ret[k].start..(out.ret[k].end - 1) :
                    Pred[p + 1] = out.ret[k].label
        /\ \A k \in 1..(Len(out.ret) - 1) : out.ret[k].label # out.ret[k + 1].label

C2_Witness ==
    /\ Segmented
    /\ out.exc = "None"
    /\ \E k \in DOMAIN out.ret : out.ret[k].duration >= 2
    /\ \E j, k \in DOMAIN out.ret : j + 1 < k /\ out.ret[j].label = out.ret[k].label

Counted(group) == call.fn = "get_num_expressions" /\ call.group = group /\ NonEmpty

\* C5: with group=True a non-empty input yields one count per known label, in
\* the canonical order, each the number of non-background runs reported under
\* that label (0 if none); an all-zero column with mapping {1:A, 2:B, 3:C}
\* yields A:0, B:0, C:0.
C5_CountPerLabel ==
    Counted(TRUE) =>
        /\ out.exc = "None"
        /\ Len(out.ret) = Len(Canonical)
        /\ \A k \in DOMAIN out.ret :
              /\ out.ret[k].label = Canonical[k]
              /\ out.ret[k].expression_count =
                     Cardinality({p \in Expressions(Pred) : Reported(Pred[p]) = Canonical[k]})
        /\ ((\A p \in DOMAIN Pred : Pred[p] = 0) /\ mapping = MappingABC) =>
              out.ret = <<[label |-> "A", expression_count |-> 0],
                          [label |-> "B", expression_count |-> 0],
                          [label |-> "C", expression_count |-> 0]>>

C5_Witness ==
    /\ Counted(TRUE)
    /\ out.exc = "None"
    /\ Len(out.ret) = 2
    /\ out.ret[1].expression_count = 0
    /\ out.ret[2].expression_count = 2

\* C6: with group=False a non-empty input yields the number of maximal runs
\* whose label is not 0, each run counted once whatever its length; for
\* [0,0,1,1,1,0,2,2] that is 2.
C6_TotalCount ==
    Counted(FALSE) =>
        /\ out.exc = "None"
        /\ out.ret = <<[expression_count |-> Cardinality(Expressions(Pred))]>>
        /\ Pred = ScenarioA => out.ret[1].expression_count = 2

C6_Witness == Counted(FALSE) /\ Pred = ScenarioA /\ out.exc = "None"

Timed(average, group) ==
    /\ call.fn = "get_expression_duration"
    /\ call.average = average
    /\ call.group = group
    /\ NonEmpty

\* the output has exactly one row per canonical label, in the canonical order
OneRowPerLabel ==
    /\ out.exc = "None"
    /\ Len(out.ret) = Len(Canonical)
    /\ \A k \in DOMAIN out.ret : out.ret[k].label = Canonical[k]

\* C4 as stated: with group=True a non-empty input yields exactly one row per
\* canonical label, for average=False and for average=True alike.
C4_Original == (Timed(FALSE, TRUE) \/ Timed(TRUE, TRUE)) => OneRowPerLabel

\* C4 amended: with group=True a non-empty input yields exactly one row per
\* canonical label when average=True or when no non-background segment
\* exists (a label without segments has duration 0); with average=False and
\* at least one non-background segment it yields one row per such segment.
C4_ZeroFill ==
    /\ (Timed(TRUE, TRUE) \/ (Timed(FALSE, TRUE) /\ Expressions(Pred) = {})) =>
          /\ OneRowPerLabel
          /\ \A k \in DOMAIN out.ret :
                (\A p \in Expressions(Pred) : Reported(Pred[p]) # Canonical[k]) =>
                    out.ret[k].duration = R(0)
    /\ (Timed(FALSE, TRUE) /\ Expressions(Pred) # {}) =>
          /\ out.exc = "None"
          /\ Len(out.ret) = Cardinality(Expressions(Pred))

C4_Witness ==
    /\ Timed(TRUE, TRUE)
    /\ out.exc = "None"
    /\ \E k \in DOMAIN out.ret : out.ret[k].duration = R(0)
    /\ \E k \in DOMAIN out.ret : out.ret[k].duration # R(0)

\* C8: with average=False and at least one non-background segment the output
\* has one row per such segment, in start order, carrying the segment's
\* (possibly mapped) label and, for a segment of d windows, the duration
\* (25 + 5 * (d - 1)) / 50, which for d = 1 is one window, 25 / 50.
C8_PerSegment ==
    \A group \in BOOLEAN :
        (Timed(FALSE, group) /\ Expressions(Pred) # {}) =>
            LET runs == Ordered(Expressions(Pred))
            IN  /\ out.exc = "None"
                /\ Len(out.ret) = Len(runs)
                /\ \A k \in DOMAIN out.ret :
                      LET d == RunEnd(Pred, runs[k]) - runs[k]
                      IN  /\ out.ret[k].label = Reported(Pred[runs[k]])
                          /\ out.ret[k].duration = Rat(25 + 5 * (d - 1), 50)
                          /\ d = 1 => out.ret[k].duration = Rat(25, 50)

C8_Witness ==
    /\ Timed(FALSE, TRUE)
    /\ out.exc = "None"
    /\ Len(out.ret) = 2
    /\ out.ret[1].duration = Rat(25, 50)
    /\ out.ret[2].duration = Rat(35, 50)

\* The intensity table, stated directly: its label column, and the peak
\* Intensity of the run that begins at position p.
Predictions == Column(results, "Predictions")

Intensity == Column(results, "Intensity")

Peak(p) ==
    LET within == {Intensity[q] : q \in p..(RunEnd(Predictions, p) - 1)}
    IN  CHOOSE x \in within : \A y \in within : y <= x

RECURSIVE SumPeaks(_)
SumPeaks(S) ==
    IF S = {} THEN 0 ELSE LET p == CHOOSE q \in S : TRUE IN Peak(p) + SumPeaks(S \ {p})

\* the mean peak of the runs of S whose peak is strictly above the threshold
MeanAbove(S, threshold) ==
    LET above == {p \in S : Peak(p) > threshold}
    IN  IF above = {} THEN R(0) ELSE Rat(SumPeaks(above), Cardinality(above))

Rated(group_labels) ==
    call.fn = "get_mean_intensities" /\ call.group = group_labels /\ NonEmpty

\* C3: a segment contributes to the mean only if its peak is strictly above
\* the caller's intensity_threshold, per label and overall alike; when the
\* only expression peaks at 0.9 and the threshold is 0.95 the overall mean is 0.
C3_ThresholdApplied ==
    /\ Rated(FALSE) =>
          /\ out.exc = "None"
          /\ out.ret = MeanAbove(Expressions(Predictions), call.intensity_threshold)
          /\ (results = ScenarioC /\ call.intensity_threshold = 95) => out.ret = R(0)
    /\ Rated(TRUE) =>
          /\ out.exc = "None"
          /\ \A k \in DOMAIN out.ret :
                out.ret[k].Expression_Intensity =
                    MeanAbove({p \in Expressions(Predictions) :
                                  Reported(Predictions[p]) = out.ret[k].label},
                              call.intensity_threshold)

Normalized(fit_all_cols) == call.fn = "normalize_data" /\ call.group = fit_all_cols

\* the rows of the last partition (the one the scaler was last fitted on)
LastPartition ==
    LET last == CHOOSE v \in {results.rows[i][1] : i \in DOMAIN results.rows} :
                    \A i \in DOMAIN results.rows : results.rows[i][1] <= v
    IN  SelectSeq(results.rows, LAMBDA row : row[1] = last)

\* C9: with fit_all_cols=True one shared scale is fitted on the pool of all
\* values of all data columns of a partition, so every data column is scaled
\* by the same parameters: the minimum and the range of the pool.
C9_SharedScale ==
    Normalized(TRUE) =>
        LET pool == {LastPartition[i][c] : i \in DOMAIN LastPartition, c \in 2..3}
            lo == CHOOSE v \in pool : \A w \in pool : v <= w
            hi == CHOOSE v \in pool : \A w \in pool : w <= v
        IN  /\ out.exc = "None"
            /\ \A c \in DOMAIN scaler :
                  scaler[c] = [data_min |-> lo, data_range |-> hi - lo]

\* C10: a call of get_grouped_num_expressions leaves the caller's list of
\* grouping columns and the shared default list as they were, and a call that
\* repeats the previous call's arguments returns the previous call's result.
C10_Stateless ==
    [][/\ grouping_columns' = grouping_columns
       /\ default_grouping_columns' = default_grouping_columns
       /\ (call' = call => out' = out)]_vars

\* The rows of one grouping key, taken from the input table directly, and
\* what the ungrouped aggregators return on them.
KeysOf(columns) == {KeyOf(results, results.rows[i], columns) : i \in DOMAIN results.rows}

RowsOf(key, columns) ==
    DataFrame(results.columns,
              SelectSeq(results.rows, LAMBDA row : KeyOf(results, row, columns) = key))

\* the rows a flat [key, row] table holds for a key
OutOf(key) ==
    List([i \in DOMAIN SelectSeq(out.ret, LAMBDA r : r.key = key) |->
            SelectSeq(out.ret, LAMBDA r : r.key = key)[i].row])

\* the rows a flat count table holds for a key, without the key's columns
CountsOf(key) ==
    List([i \in DOMAIN SelectSeq(out.ret.rows, LAMBDA r : SubSeq(r, 1, Len(key)) = key) |->
            SubSeq(SelectSeq(out.ret.rows, LAMBDA r : SubSeq(r, 1, Len(key)) = key)[i],
                   Len(key) + 1,
                   Len(out.ret.columns))])

\* the rows of get_num_expressions as tuples (label, expression_count)
CountTuples(rows, group) ==
    List([i \in DOMAIN rows |->
            IF group THEN <<rows[i].label, rows[i].expression_count>>
            ELSE <<rows[i].expression_count>>])

\* row `got` carries the columns of `want` with the same values, and NaN in
\* every other column
Padded(got, want) ==
    /\ DOMAIN want \subseteq DOMAIN got
    /\ \A c \in DOMAIN got : got[c] = IF c \in DOMAIN want THEN want[c] ELSE NaN

PaddedRows(got, want) ==
    /\ Len(got) = Len(want)
    /\ \A i \in DOMAIN got : Padded(got[i], want[i])

PerKey(fn) == call.fn = fn /\ out.exc = "None"

\* the grouped count of every key is that of its rows alone: the number of
\* maximal non-background runs within the key's own rows
CountPerKey ==
    PerKey("get_grouped_num_expressions") =>
        /\ \A i \in DOMAIN out.ret.rows :
              SubSeq(out.ret.rows[i], 1, Len(grouping_columns)) \in KeysOf(grouping_columns)
        /\ \A key \in KeysOf(grouping_columns) :
              /\ CountsOf(key) =
                     CountTuples(get_num_expressions(
                         RowsOf(key, grouping_columns), mapping, call.group).ret, call.group)
              /\ ~call.group =>
                     CountsOf(key) = << <<Cardinality(Expressions(
                         Column(RowsOf(key, grouping_columns), "pred")))>> >>

IntensityPerKey ==
    PerKey("get_grouped_expression_intensity") =>
        /\ \A i \in DOMAIN out.ret : out.ret[i].key \in KeysOf(grouping_columns)
        /\ \A key \in KeysOf(grouping_columns) :
              OutOf(key) =
                  IF call.group
                  THEN get_mean_intensities(RowsOf(key, grouping_columns), mapping, TRUE,
                                            call.intensity_threshold, "pred").ret
                  ELSE <<[Expression_Intensity |->
                            get_mean_intensities(RowsOf(key, grouping_columns), mapping, FALSE,
                                                 call.intensity_threshold, "pred").ret]>>

\* C11 as stated: in the three grouped aggregators without normalization the
\* output rows of every grouping key equal the result of the ungrouped
\* aggregator on that key's rows alone (segments and the positions used for
\* the intensity lookup are those of the key's own sub-table).
C11_Original ==
    /\ CountPerKey
    /\ IntensityPerKey
    /\ PerKey("get_grouped_expressions_duration") =>
          \A key \in KeysOf(grouping_columns) :
              OutOf(key) = get_expression_duration(
                  RowsOf(key, grouping_columns), mapping, call.average, call.group).ret

\* C11 amended: as above, except that the duration rows of a key equal the
\* ungrouped result on the columns that result has; a column only other
\* keys' results have (label, for a key without expression when average and
\* group are both False) holds NaN.
C11_PerKey ==
    /\ CountPerKey
    /\ IntensityPerKey
    /\ PerKey("get_grouped_expressions_duration") =>
          /\ \A i \in DOMAIN out.ret : out.ret[i].key \in KeysOf(grouping_columns)
          /\ \A key \in KeysOf(grouping_columns) :
                /\ PaddedRows(OutOf(key),
                              get_expression_duration(RowsOf(key, grouping_columns), mapping,
                                                      call.average, call.group).ret)
                /\ (call.average \/ call.group) =>
                      OutOf(key) = get_expression_duration(
                          RowsOf(key, grouping_columns), mapping,
                          call.average, call.group).ret

\* two subjects whose adjacent windows carry the same label: one run in the
\* table, one expression for each subject
C11_Witness ==
    /\ PerKey("get_grouped_num_expressions")
    /\ ~call.group
    /\ Cardinality(KeysOf(grouping_columns)) = 2
    /\ Cardinality(Expressions(Pred)) = 1
    /\ out.ret.rows = << <<1, 1>>, <<2, 1>> >>

EmptyInputError == "ValueError: Segments cannot be extracted from an empty list"

\* the zero or zero-filled result of the call made
ZeroResult ==
    IF call.fn = "get_num_expressions"
    THEN IF call.group
         THEN List([k \in DOMAIN Canonical |->
                      [label |-> Canonical[k], expression_count |-> 0]])
         ELSE <<[expression_count |-> 0]>>
    ELSE IF call.fn = "get_expression_duration"
    THEN IF call.group
         THEN List([k \in DOMAIN Canonical |-> [duration |-> R(0), label |-> Canonical[k]]])
         ELSE <<[duration |-> R(0)]>>
    ELSE IF call.group
         THEN List([k \in DOMAIN Canonical |->
                      [label |-> Canonical[k], Expression_Intensity |-> R(0)]])
         ELSE R(0)

\* C12: on a zero-row table the segmentation fails with the empty-input
\* error and returns no segments, and the count, duration and intensity
\* aggregators fail with that same error instead of returning a result; a
\* non-empty table without a non-background run gives the zero or
\* zero-filled result and no error.
C12_EmptyInput ==
    call.fn # "none" =>
        /\ ~NonEmpty => out.exc = EmptyInputError /\ out.ret = <<>>
        /\ NonEmpty => out.exc = "None"
        /\ (NonEmpty /\ Expressions(Pred) = {} /\ call.fn # "find_label_segments") =>
               out.ret = ZeroResult

C12_Witness ==
    /\ call.fn = "get_mean_intensities"
    /\ call.group
    /\ results.rows = <<>>
    /\ out.exc = EmptyInputError

LengthMismatchError == "ValueError: Length mismatch between segments and labels"

\* the ranges find_subsegments_indices cuts the label column into
Ranges == find_subsegments_indices(Pred).ret

\* C13: for a non-empty label column no range of find_subsegments_indices is
\* empty, get_segment_label yields one label for each range, and so neither
\* find_label_segments nor an aggregator built on it ends with the
\* length-mismatch error.
C13_NoMismatch ==
    (call.fn # "none" /\ NonEmpty) =>
        /\ out.exc # LengthMismatchError
        /\ \A k \in DOMAIN Ranges : Ranges[k][1] < Ranges[k][2]
        /\ get_segment_label(results, Ranges, "pred").exc = "None"
        /\ Len(get_segment_label(results, Ranges, "pred").ret) = Len(Ranges)
        /\ call.fn = "find_label_segments" =>
              /\ out.exc = "None"
              /\ Len(out.ret) = Len(Ranges)
              /\ \A k \in DOMAIN out.ret :
                    out.ret[k].label = get_segment_label(results, Ranges, "pred").ret[k]

C13_Witness ==
    /\ Segmented
    /\ out.exc = "None"
    /\ Len(out.ret) = 3
    /\ \A k \in DOMAIN out.ret : out.ret[k].duration = 1

\* C14: a call with normalize=True whose grouping columns already hold
\* "Video", as the default list does, ends with the error of reading the
\* never assigned normalization_grouping_cols and returns no table; the
\* same call with a list that lacks "Video" does not end that way.
C14_Unassigned ==
    /\ "Video" \in Range(default_grouping_columns)
    /\ (call.fn = "get_grouped_num_expressions" /\ call.normalize) =>
          IF call.default_columns
          THEN out.exc = "UnboundLocalError" /\ out.ret = <<>>
          ELSE out.exc # "UnboundLocalError"

C14_Witness ==
    /\ call.fn = "get_grouped_num_expressions"
    /\ call.normalize
    /\ call.default_columns
    /\ out.exc = "UnboundLocalError"
    /\ scaler = Unfitted

\* the start of the maximal run of `column` that holds position p (1-based)
RunOf(column, p) ==
    CHOOSE q \in RunStarts(column) : q <= p /\ \A r \in RunStarts(column) : r <= p => r <= q

\* p lies in a non-background run of at most `threshold` windows
InShortRun(column, p, threshold) ==
    /\ column[p] # 0
    /\ RunEnd(column, RunOf(column, p)) - RunOf(column, p) <= threshold

Filtered(calls) == call.fn = "filter_predictions" /\ call.calls = calls

\* C15: filtering a non-empty table zeroes the 'pred' label of exactly the
\* windows of non-background runs of at most window_threshold windows, so
\* every non-background run of the result is longer than window_threshold,
\* and filtering the result again returns it unchanged.
C15_ShortRunsZeroed ==
    /\ (Filtered(1) /\ NonEmpty) =>
          /\ out.exc = "None"
          /\ Len(out.ret.rows) = Len(results.rows)
          /\ \A p \in DOMAIN Pred :
                Column(out.ret, "pred")[p] =
                    IF InShortRun(Pred, p, call.window_threshold) THEN 0 ELSE Pred[p]
          /\ \A q \in Expressions(Column(out.ret, "pred")) :
                RunEnd(Column(out.ret, "pred"), q) - q > call.window_threshold
    /\ Filtered(2) => out.exc = "None" /\ out.ret = results

\* C16: the table filter_predictions returns differs from its input in the
\* 'pred' column only, wherever that column stands, and the input table is
\* the same after the call.
C16_OnlyPredChanges ==
    [][(call.fn = "none" /\ call'.fn = "filter_predictions" /\ out'.exc = "None") =>
          /\ results' = results
          /\ out'.ret.columns = results.columns
          /\ Len(out'.ret.rows) = Len(results.rows)
          /\ \A i \in DOMAIN results.rows :
                \A c \in DOMAIN results.columns :
                    results.columns[c] # "pred" =>
                        out'.ret.rows[i][c] = results.rows[i][c]]_vars

\* the sum of the per-label counts of a group=True result
SumOfCounts == SumSeq(List([k \in DOMAIN out.ret |-> out.ret[k].expression_count]))

\* the total the group=False call returns on the same table and mapping
TotalCount == get_num_expressions(results, mapping, FALSE).ret[1].expression_count

\* the non-background runs whose reported label is one of the known labels
KnownExpressions == {p \in Expressions(Pred) : Reported(Pred[p]) \in Range(Canonical)}

\* C17 as stated: for a non-empty label sequence the per-label counts of
\* group=True sum to the total count of group=False.
C17_Original == Counted(TRUE) => out.exc = "None" /\ SumOfCounts = TotalCount

\* C17 amended: the per-label counts sum to the number of non-background
\* segments whose label is a known label (a mapping value, or 1, 2, 3), each
\* counted once; that is the total count whenever every non-background
\* label is known, and less than it otherwise.
C17_SumOfKnown ==
    Counted(TRUE) =>
        /\ out.exc = "None"
        /\ SumOfCounts = Cardinality(KnownExpressions)
        /\ TotalCount = Cardinality(Expressions(Pred))
        /\ KnownExpressions = Expressions(Pred) => SumOfCounts = TotalCount
        /\ KnownExpressions # Expressions(Pred) => SumOfCounts < TotalCount

C17_Witness ==
    /\ Counted(TRUE)
    /\ out.exc = "None"
    /\ KnownExpressions = Expressions(Pred)
    /\ SumOfCounts = 2
    /\ \E p \in Expressions(Pred) : RunEnd(Pred, p) - p >= 2

====
